---- MODULE Spec2Model ----
(***************************************************************************)
(* Model of the command-line scripts of Discord-AI-Bot:                    *)
(*   src/src/games/zzz/fetch_profile.py  (serialize_character,             *)
(*                                        fetch_profile, main)             *)
(*   src/python/generate_card.py         (generate_card, list_characters,  *)
(*                                        main)                            *)
(*                                                                         *)
(* Python values are tagged records (field k is the tag).  An object is a  *)
(* record of its attributes; an attribute the object does not have holds   *)
(* Absent, so hasattr(o, a) is "o has field a and o[a] # Absent".          *)
(***************************************************************************)
EXTENDS Integers, Sequences, FiniteSets, TLC

VARIABLES
    script,       \* which script's main() was invoked
    argv,         \* the command line, as argparse sees it
    pc,           \* position of the invocation
    session,      \* the async client session: "none", "open", "closed"
    pending,      \* what is propagating out of the current block
    lines,        \* the SUCCESS:/ERROR: lines printed to stdout so far
    exitStatus,   \* process exit status; NotExited while running
    response,     \* what the awaited library call returned
    player_data,  \* fetch_profile: the player dictionary
    characters,   \* fetch_profile: the characters list being built
    fs,           \* generate_card: effects on the file system
    char,         \* serialize_character: the argument
    summary       \* serialize_character: the outcome

vars == <<script, argv, pc, session, pending, lines, exitStatus, response,
          player_data, characters, fs, char, summary>>

----------------------------------------------------------------------------
(* Bounds of the model *)

MaxAgents == 2
MaxCards == 2
MaxStats == 2
MaxParsed == 50

----------------------------------------------------------------------------
(* Python values *)

Absent == [k |-> "absent"]
NoneV == [k |-> "none"]
IntV(n) == [k |-> "int", n |-> n]
StrV(s) == [k |-> "str", s |-> s]
ListV(items) == [k |-> "list", items |-> items]
DictV(d) == [k |-> "dict", d |-> d]
\* an enum member or other library object: str(o) is its repr; it may carry
\* a name attribute
ObjV(name, repr) == [k |-> "obj", name |-> name, repr |-> repr]

EmptyDict == [x \in {} |-> Absent]
Put(d, key, v) == [x \in (DOMAIN d) \cup {key} |-> IF x = key THEN v ELSE d[x]]

\* the outcome of evaluating an expression or block: a value, or an exception
Ok(v) == [raised |-> FALSE, val |-> v, exc |-> "", msg |-> ""]
Raise(cls, m) == [raised |-> TRUE, val |-> NoneV, exc |-> cls, msg |-> m]

HasAttr(o, a) == a \in DOMAIN o /\ o[a] # Absent

GetAttr(o, a) ==
    IF HasAttr(o, a) THEN Ok(o[a])
    ELSE Raise("AttributeError", "object has no attribute '" \o a \o "'")

Truthy(v) ==
    CASE v.k = "none" -> FALSE
      [] v.k = "absent" -> FALSE
      [] v.k = "int" -> v.n # 0
      [] v.k = "str" -> v.s # ""
      [] v.k = "list" -> v.items # <<>>
      [] v.k = "dict" -> DOMAIN v.d # {}
      [] v.k = "path" -> v.parts # <<>>
      [] OTHER -> TRUE

Digit(d) ==
    CASE d = 0 -> "0" [] d = 1 -> "1" [] d = 2 -> "2" [] d = 3 -> "3"
      [] d = 4 -> "4" [] d = 5 -> "5" [] d = 6 -> "6" [] d = 7 -> "7"
      [] d = 8 -> "8" [] d = 9 -> "9"

RECURSIVE ToStr(_)
ToStr(n) ==
    IF n < 0 THEN "-" \o ToStr(0 - n)
    ELSE IF n < 10 THEN Digit(n)
    ELSE ToStr(n \div 10) \o Digit(n % 10)

\* str(v)
PyStr(v) ==
    CASE v.k = "str" -> v
      [] v.k = "int" -> StrV(ToStr(v.n))
      [] v.k = "none" -> StrV("None")
      [] v.k = "obj" -> StrV(v.repr)
      [] OTHER -> StrV("<" \o v.k \o " object>")

\* whether json.dumps accepts v
RECURSIVE JsonOK(_)
JsonOK(v) ==
    CASE v.k \in {"none", "int", "str"} -> TRUE
      [] v.k = "list" -> \A i \in 1..Len(v.items) : JsonOK(v.items[i])
      [] v.k = "dict" -> \A key \in DOMAIN v.d : JsonOK(v.d[key])
      [] OTHER -> FALSE

\* json.dumps(v, ensure_ascii=False): the text of v, or TypeError
Dumps(v) ==
    IF JsonOK(v) THEN Ok([k |-> "json", of |-> v])
    ELSE Raise("TypeError", "Object is not JSON serializable")

----------------------------------------------------------------------------
(* fetch_profile.py: serialize_character *)

\* lines 66-68: the name of the first entry of char.elements, or None
ElementOf(c) ==
    IF HasAttr(c, "elements") /\ Truthy(c.elements)
    THEN IF c.elements.k = "list"
         THEN GetAttr(c.elements.items[1], "name")
         ELSE Raise("TypeError", "object is not subscriptable")
    ELSE Ok(NoneV)

\* lines 71-73: specialty.name if it has one, else str(specialty), or None
SpecialtyOf(c) ==
    IF HasAttr(c, "specialty") /\ Truthy(c.specialty)
    THEN IF HasAttr(c.specialty, "name")
         THEN Ok(c.specialty.name)
         ELSE Ok(PyStr(c.specialty))
    ELSE Ok(NoneV)

\* mutant: element and specialty are left out when they are None
BaseDataOmitNone(c, element, specialty) ==
    LET id == GetAttr(c, "id")
        name == GetAttr(c, "name")
        level == GetAttr(c, "level")
        rank == IF HasAttr(c, "mindscape") THEN c.mindscape ELSE IntV(0)
        rarity == IF HasAttr(c, "rarity") THEN Ok(c.rarity)
                  ELSE GetAttr(c, "rarity_num")
    IN  IF id.raised THEN id
        ELSE IF name.raised THEN name
        ELSE IF level.raised THEN level
        ELSE IF rarity.raised THEN rarity
        ELSE LET base == [id |-> PyStr(id.val), name |-> name.val,
                          level |-> level.val, rank |-> rank,
                          rarity |-> rarity.val]
                 withElement == IF element = NoneV THEN base
                                ELSE Put(base, "element", element)
             IN  Ok(IF specialty = NoneV THEN withElement
                    ELSE Put(withElement, "specialty", specialty))

\* lines 76-84: the char_data literal; its entries are evaluated in order
BaseData(c, element, specialty) ==
    LET id == GetAttr(c, "id")
        name == GetAttr(c, "name")
        level == GetAttr(c, "level")
        rank == IF HasAttr(c, "mindscape") THEN c.mindscape ELSE IntV(0)
        rarity == IF HasAttr(c, "rarity") THEN Ok(c.rarity)
                  ELSE GetAttr(c, "rarity_num")
    IN  IF id.raised THEN id
        ELSE IF name.raised THEN name
        ELSE IF level.raised THEN level
        ELSE IF rarity.raised THEN rarity
        ELSE Ok([id |-> PyStr(id.val), name |-> name.val, level |-> level.val,
                 rank |-> rank, rarity |-> rarity.val,
                 element |-> element, specialty |-> specialty])

\* lines 89-92: the loop over char.stats; a later entry overwrites an
\* earlier one of the same name
RECURSIVE StatsLoop(_, _, _)
StatsLoop(items, i, stats) ==
    IF i > Len(items) THEN stats
    ELSE LET stat == items[i]
         IN  IF HasAttr(stat, "type") /\ HasAttr(stat, "value")
             THEN LET stat_name == IF HasAttr(stat.type, "name")
                                   THEN stat.type.name
                                   ELSE PyStr(stat.type)
                  IN  StatsLoop(items, i + 1,
                                Put(stats, PyStr(stat_name).s, stat.value))
             ELSE StatsLoop(items, i + 1, stats)

\* lines 87-93
AddStats(c, char_data) ==
    IF HasAttr(c, "stats") /\ Truthy(c.stats)
    THEN IF c.stats.k = "list"
         THEN Ok(Put(char_data, "stats",
                     DictV(StatsLoop(c.stats.items, 1, EmptyDict))))
         ELSE Raise("TypeError", "object is not iterable")
    ELSE Ok(char_data)

\* mutant: refinement is looked at before rank
EngineRankRefinementFirst(engine) ==
    IF HasAttr(engine, "refinement") THEN engine.refinement
    ELSE IF HasAttr(engine, "rank") THEN engine.rank
    ELSE IntV(1)

\* lines 99-103: rank, else refinement, else 1
EngineRank(engine) ==
    IF HasAttr(engine, "rank") THEN engine.rank
    ELSE IF HasAttr(engine, "refinement") THEN engine.refinement
    ELSE IntV(1)

\* line 110
EngineRarity(engine) ==
    IF HasAttr(engine, "rarity") THEN engine.rarity ELSE IntV(4)

\* lines 96-111
AddEngine(c, char_data) ==
    IF HasAttr(c, "w_engine") /\ Truthy(c.w_engine)
    THEN LET engine == c.w_engine
             refinement == EngineRank(engine)
             id == GetAttr(engine, "id")
             name == GetAttr(engine, "name")
             level == GetAttr(engine, "level")
         IN  IF id.raised THEN id
             ELSE IF name.raised THEN name
             ELSE IF level.raised THEN level
             ELSE Ok(Put(char_data, "w_engine",
                         DictV([id |-> PyStr(id.val), name |-> name.val,
                                level |-> level.val, rank |-> refinement,
                                rarity |-> EngineRarity(engine)])))
    ELSE Ok(char_data)

\* lines 114-115
AddIcon(c, char_data) ==
    IF HasAttr(c, "icon") /\ Truthy(c.icon)
    THEN Put(char_data, "icon", PyStr(c.icon))
    ELSE char_data

\* lines 65-117: the body of the try; the first exception ends it
TryBody(c) ==
    LET element == ElementOf(c) IN
    IF element.raised THEN element ELSE
    LET specialty == SpecialtyOf(c) IN
    IF specialty.raised THEN specialty ELSE
    LET base == BaseData(c, element.val, specialty.val) IN
    IF base.raised THEN base ELSE
    LET withStats == AddStats(c, base.val) IN
    IF withStats.raised THEN withStats ELSE
    LET withEngine == AddEngine(c, withStats.val) IN
    IF withEngine.raised THEN withEngine
    ELSE Ok(DictV(AddIcon(c, withEngine.val)))

\* lines 119-125: the minimal record returned by the except clause
ErrorRecord(c, e) ==
    DictV([id |-> PyStr(IF HasAttr(c, "id") THEN c.id ELSE StrV("unknown")),
           name |-> IF HasAttr(c, "name") THEN c.name ELSE StrV("Unknown"),
           error |-> StrV(e.msg)])

\* mutant: no except clause, the body's exception propagates
serialize_character_uncaught(c) == TryBody(c)

\* lines 62-125: except Exception catches whatever the body raises
serialize_character(c) ==
    LET r == TryBody(c)
    IN  IF r.raised THEN Ok(ErrorRecord(c, r)) ELSE r

----------------------------------------------------------------------------
(* The raw objects serialize_character is applied to *)

SeqsUpTo(S, n) == UNION {[1..m -> S] : m \in 0..n}

FIRE == ObjV(StrV("FIRE"), "Element.FIRE")
ICE == ObjV(StrV("ICE"), "Element.ICE")
Nameless == ObjV(Absent, "<object>")

StatItems ==
    {[k |-> "stat", type |-> ObjV(StrV("ATK"), "StatType.ATK"), value |-> IntV(10)],
     [k |-> "stat", type |-> StrV("HP"), value |-> IntV(20)],
     [k |-> "stat", type |-> Absent, value |-> IntV(1)]}

StatsOptions ==
    {Absent, IntV(5)} \cup {ListV(q) : q \in SeqsUpTo(StatItems, MaxStats)}

Engines ==
    [k : {"engine"}, id : {IntV(14)}, name : {StrV("Steel")}, level : {IntV(60)},
     rank : {Absent, IntV(5)}, refinement : {Absent, IntV(2)},
     rarity : {Absent, StrV("S")}]
    \cup
    {[k |-> "engine", id |-> IntV(14), name |-> Absent, level |-> IntV(60),
      rank |-> IntV(5), refinement |-> Absent, rarity |-> Absent]}

AllChars ==
    [k : {"agent"},
     id : {Absent, IntV(7), StrV("12")},
     name : {Absent, StrV("Anby")},
     level : {Absent, IntV(60)},
     mindscape : {Absent, IntV(3)},
     rarity : {Absent, StrV("S")},
     rarity_num : {Absent, IntV(4)},
     elements : {Absent, ListV(<<FIRE, ICE>>), ListV(<<Nameless>>)},
     specialty : {Absent, ObjV(StrV("STUN"), "Specialty.STUN"), Nameless},
     stats : StatsOptions,
     w_engine : {Absent, NoneV} \cup Engines,
     icon : {Absent, ObjV(Absent, "https://enka.network/icon.png")}]

----------------------------------------------------------------------------
(* serialize_character applied to one raw object *)

NotExited == 0 - 1
NoPending == [kind |-> "none"]
NoFs == [made |-> FALSE, saved |-> "none"]

HandlerIdle ==
    /\ script = "none"
    /\ argv = <<>>
    /\ session = "none"
    /\ pending = NoPending
    /\ lines = <<>>
    /\ exitStatus = NotExited
    /\ response = Absent
    /\ player_data = Absent
    /\ characters = <<>>
    /\ fs = NoFs

SerInit ==
    /\ HandlerIdle
    /\ pc = "call"
    /\ char \in AllChars
    /\ summary = Absent

Serialize ==
    /\ pc = "call"
    /\ summary' = serialize_character(char)
    /\ pc' = "returned"
    /\ UNCHANGED <<script, argv, session, pending, lines, exitStatus, response,
                   player_data, characters, fs, char>>

SerNext == Serialize

SerSpec == SerInit /\ [][SerNext]_vars

----------------------------------------------------------------------------
(* What the two scripts are run with, and what the libraries may return *)

PathV(parts) == [k |-> "path", parts |-> parts]

\* os.path.dirname
Dirname(p) == PathV(SubSeq(p.parts, 1, Len(p.parts) - 1))

\* int(s): the number whose decimal text is s, or ValueError
PyInt(v) ==
    IF \E n \in 0..MaxParsed : ToStr(n) = v.s
    THEN Ok(IntV(CHOOSE n \in 0..MaxParsed : ToStr(n) = v.s))
    ELSE Raise("ValueError", "invalid literal for int() with base 10: '" \o v.s \o "'")

Argvs(s) ==
    IF s = "fetch_profile"
    THEN [action : {"fetch", "bogus"},
          uid : {Absent, StrV("42"), StrV("abc")},
          character_id : {NoneV}, output : {NoneV}, template : {StrV("2")}]
    ELSE [action : {"generate", "list", "bogus"},
          uid : {Absent, StrV("42")},
          character_id : {NoneV, StrV(""), StrV("7"), StrV("12"), StrV("3")},
          output : {NoneV, PathV(<<"card.png">>), PathV(<<"out", "card.png">>)},
          template : {StrV("2"), StrV("x")}]

GoodChar ==
    [k |-> "agent", id |-> IntV(7), name |-> StrV("Anby"), level |-> IntV(60),
     mindscape |-> Absent, rarity |-> StrV("S"), rarity_num |-> Absent,
     elements |-> Absent, specialty |-> Absent, stats |-> Absent,
     w_engine |-> Absent, icon |-> Absent]

FullChar ==
    [k |-> "agent", id |-> IntV(12), name |-> StrV("Nicole"), level |-> IntV(50),
     mindscape |-> IntV(3), rarity |-> Absent, rarity_num |-> IntV(4),
     elements |-> ListV(<<FIRE, ICE>>),
     specialty |-> ObjV(StrV("STUN"), "Specialty.STUN"),
     stats |-> ListV(<<[k |-> "stat", type |-> ObjV(StrV("ATK"), "StatType.ATK"),
                        value |-> IntV(10)]>>),
     w_engine |-> [k |-> "engine", id |-> IntV(14), name |-> StrV("Steel"),
                   level |-> IntV(60), rank |-> IntV(5), refinement |-> IntV(2),
                   rarity |-> Absent],
     icon |-> ObjV(Absent, "https://enka.network/icon.png")]

\* the characters a showcase response is made of: well-formed ones, ones
\* whose extraction raises at one step or another (level, engine name, id,
\* stats, element name, rarity), and one carrying a library object as a value
FetchChars ==
    {GoodChar, FullChar,
     [GoodChar EXCEPT !.id = StrV("13"), !.level = Absent],
     [FullChar EXCEPT !.id = IntV(14), !.w_engine.name = Absent],
     [GoodChar EXCEPT !.id = Absent, !.name = Absent],
     [GoodChar EXCEPT !.id = IntV(16), !.stats = IntV(5)],
     [FullChar EXCEPT !.id = IntV(17), !.elements = ListV(<<Nameless>>)],
     [GoodChar EXCEPT !.id = IntV(18), !.rarity = Absent],
     [GoodChar EXCEPT !.id = IntV(15), !.rarity = ObjV(Absent, "Rarity.S")]}

PlayerExtras ==
    {<<Absent, Absent>>,
     <<StrV(""), ObjV(Absent, "https://enka.network/avatar.png")>>,
     <<StrV("hi"), Absent>>}

Players ==
    {NoneV} \cup
    {[k |-> "player", nickname |-> n, level |-> l,
      signature |-> x[1], avatar |-> x[2]] :
        n \in {Absent, StrV("Tester")}, l \in {Absent, IntV(50)},
        x \in PlayerExtras}

Responses ==
    [k : {"response"}, player : Players,
     agents : {NoneV} \cup {ListV(q) : q \in SeqsUpTo(FetchChars, MaxAgents)},
     ttl : {Absent, IntV(60)}]

Cards ==
    [k : {"card"}, id : {IntV(7), IntV(12), StrV("12")}, name : {StrV("Welt")},
     rarity : {IntV(5)}, card : {"imgA", "imgB"}]
    \cup
    {[k |-> "card", id |-> IntV(7), name |-> StrV("Welt"),
      rarity |-> ObjV(Absent, "Rarity.FIVE"), card |-> "imgA"]}

CardResults ==
    {NoneV} \cup
    [k : {"result"}, card : {ListV(q) : q \in SeqsUpTo(Cards, MaxCards)}]

\* the exceptions the awaited library call may raise
FetchErrors == {"PlayerDoesNotExistError", "GameMaintenanceError", "EnkaAPIError"}
CardErrors == {"StarRailCardError"}

Exc(cls, m) == [kind |-> "exc", cls |-> cls, msg |-> m]
Returned(v) == [kind |-> "return", val |-> v]
Line(prefix, payload) == [prefix |-> prefix, payload |-> payload]

----------------------------------------------------------------------------
(* The scripts' main() *)

Init ==
    /\ script \in {"fetch_profile", "generate_card"}
    /\ argv \in Argvs(script)
    /\ pc = "main"
    /\ session = "none"
    /\ pending = NoPending
    /\ lines = <<>>
    /\ exitStatus = NotExited
    /\ response = Absent
    /\ player_data = Absent
    /\ characters = <<>>
    /\ fs = NoFs
    /\ char = Absent
    /\ summary = Absent

Choices == IF script = "fetch_profile" THEN {"fetch"} ELSE {"generate", "list"}

\* parser.parse_args() accepts the command line
ArgparseOK ==
    /\ argv.action \in Choices
    /\ argv.uid # Absent
    /\ ~PyInt(argv.template).raised

\* the action handler main() runs
Handler ==
    IF script = "fetch_profile" THEN "fetch_profile"
    ELSE IF argv.action = "generate" THEN "generate_card"
    ELSE "list_characters"

\* parse_args() on a command line it rejects: usage on stderr, sys.exit(2)
ArgparseReject ==
    /\ pc = "main"
    /\ ~ArgparseOK
    /\ exitStatus' = 2
    /\ pc' = "exited"
    /\ UNCHANGED <<script, argv, session, pending, lines, response,
                   player_data, characters, fs, char, summary>>

\* generate without --character_id or --output
MainGenerateMissing ==
    /\ pc = "main"
    /\ ArgparseOK
    /\ Handler = "generate_card"
    /\ ~(Truthy(argv.character_id) /\ Truthy(argv.output))
    /\ lines' = Append(lines, Line("ERROR",
           StrV("--character_id and --output are required for generate action")))
    /\ exitStatus' = 1
    /\ pc' = "exited"
    /\ UNCHANGED <<script, argv, session, pending, response,
                   player_data, characters, fs, char, summary>>

\* asyncio.run(<handler>(...))
MainRun ==
    /\ pc = "main"
    /\ ArgparseOK
    /\ Handler = "generate_card" =>
           Truthy(argv.character_id) /\ Truthy(argv.output)
    /\ pc' = "enter"
    /\ UNCHANGED <<script, argv, session, pending, lines, exitStatus, response,
                   player_data, characters, fs, char, summary>>

\* mutant: the exit status follows the outcome
MainReturnByOutcome ==
    /\ pc = "return"
    /\ exitStatus' = IF \E i \in 1..Len(lines) : lines[i].prefix = "ERROR"
                     THEN 1 ELSE 0
    /\ pc' = "exited"
    /\ UNCHANGED <<script, argv, session, pending, lines, response,
                   player_data, characters, fs, char, summary>>

\* the coroutine has finished and main() falls off its end
MainReturn ==
    /\ pc = "return"
    /\ exitStatus' = 0
    /\ pc' = "exited"
    /\ UNCHANGED <<script, argv, session, pending, lines, response,
                   player_data, characters, fs, char, summary>>

----------------------------------------------------------------------------
(* async with <client> as ...: entering and leaving the session *)

EnterOk ==
    /\ pc = "enter"
    /\ session' = "open"
    /\ pc' = "await"
    /\ UNCHANGED <<script, argv, pending, lines, exitStatus, response,
                   player_data, characters, fs, char, summary>>

\* the constructor or __aenter__ raises: the block is never entered
EnterRaise ==
    /\ pc = "enter"
    /\ pending' = Exc("ClientError", "cannot open session")
    /\ pc' = "except"
    /\ UNCHANGED <<script, argv, session, lines, exitStatus, response,
                   player_data, characters, fs, char, summary>>

\* mutant: the session is closed only when the block ends without exception
SessionExitSkippedOnError ==
    /\ pc = "exit"
    /\ IF pending.kind = "exc"
       THEN /\ pc' = "except"
            /\ UNCHANGED <<session, pending>>
       ELSE /\ session' = "closed"
            /\ pending' = IF pending.kind = "none" THEN Returned("None")
                          ELSE pending
            /\ pc' = "return"
    /\ UNCHANGED <<script, argv, lines, exitStatus, response,
                   player_data, characters, fs, char, summary>>

\* __aexit__ runs when the block is left, by its end, by return or by an
\* exception; what it raises replaces what was propagating.  "closed" says
\* that __aexit__ has run.
SessionExit ==
    /\ pc = "exit"
    /\ session' = "closed"
    /\ \E closeRaises \in BOOLEAN :
         IF closeRaises
         THEN /\ pending' = Exc("ClientError", "cannot close session")
              /\ pc' = "except"
         ELSE IF pending.kind = "exc"
         THEN /\ pending' = pending
              /\ pc' = "except"
         ELSE /\ pending' = IF pending.kind = "none" THEN Returned("None")
                            ELSE pending
              /\ pc' = "return"
    /\ UNCHANGED <<script, argv, lines, exitStatus, response,
                   player_data, characters, fs, char, summary>>

\* fetch_profile.py lines 176-181, generate_card.py lines 82-84 and 119-121
ExceptMessage ==
    IF Handler = "fetch_profile" /\ pending.cls = "PlayerDoesNotExistError"
    THEN StrV("Player with UID " \o argv.uid.s \o " does not exist")
    ELSE IF Handler = "fetch_profile" /\ pending.cls = "GameMaintenanceError"
    THEN StrV("Game is under maintenance, please try again later")
    ELSE StrV(pending.msg)

ExceptHandler ==
    /\ pc = "except"
    /\ lines' = Append(lines, Line("ERROR", ExceptMessage))
    /\ pending' = Returned(IF Handler = "fetch_profile" THEN "None" ELSE "False")
    /\ pc' = "return"
    /\ UNCHANGED <<script, argv, session, exitStatus, response,
                   player_data, characters, fs, char, summary>>

----------------------------------------------------------------------------
(* fetch_profile.py: fetch_profile *)

\* line 143: int(uid) fails before anything is requested
FetchBadUid ==
    /\ pc = "await"
    /\ Handler = "fetch_profile"
    /\ PyInt(argv.uid).raised
    /\ pending' = Exc("ValueError", PyInt(argv.uid).msg)
    /\ pc' = "exit"
    /\ UNCHANGED <<script, argv, session, lines, exitStatus, response,
                   player_data, characters, fs, char, summary>>

\* line 143: await client.fetch_showcase(int(uid)) returns a response
FetchReturns ==
    /\ pc = "await"
    /\ Handler = "fetch_profile"
    /\ ~PyInt(argv.uid).raised
    /\ \E r \in Responses : response' = r
    /\ pc' = "body"
    /\ UNCHANGED <<script, argv, session, pending, lines, exitStatus,
                   player_data, characters, fs, char, summary>>

\* line 143: ... or raises
FetchRaises ==
    /\ pc = "await"
    /\ Handler = "fetch_profile"
    /\ ~PyInt(argv.uid).raised
    /\ \E cls \in FetchErrors : pending' = Exc(cls, "showcase request failed")
    /\ pc' = "exit"
    /\ UNCHANGED <<script, argv, session, lines, exitStatus, response,
                   player_data, characters, fs, char, summary>>

\* mutant: the fallback is applied field by field
PlayerDataLenient(uid, resp) ==
    LET player == resp.player
    IN  Ok(DictV([uid |-> uid,
                  nickname |-> IF HasAttr(player, "nickname")
                               THEN player.nickname ELSE StrV("Unknown"),
                  level |-> IF HasAttr(player, "level")
                            THEN player.level ELSE IntV(0)]))

\* lines 146-159: the player dictionary
PlayerData(uid, resp) ==
    LET player == resp.player
        nickname == IF Truthy(player) THEN GetAttr(player, "nickname")
                    ELSE Ok(StrV("Unknown"))
        level == IF Truthy(player) THEN GetAttr(player, "level")
                 ELSE Ok(IntV(0))
    IN  IF nickname.raised THEN nickname
        ELSE IF level.raised THEN level
        ELSE LET base == [uid |-> uid, nickname |-> nickname.val,
                          level |-> level.val]
                 withSignature ==
                     IF Truthy(player) /\ HasAttr(player, "signature")
                        /\ Truthy(player.signature)
                     THEN Put(base, "signature", player.signature)
                     ELSE base
                 withAvatar ==
                     IF Truthy(player) /\ HasAttr(player, "avatar")
                        /\ Truthy(player.avatar)
                     THEN Put(withSignature, "avatar_url", PyStr(player.avatar))
                     ELSE withSignature
             IN  Ok(DictV(withAvatar))

BuildPlayer ==
    /\ pc = "body"
    /\ Handler = "fetch_profile"
    /\ LET r == PlayerData(argv.uid, response)
       IN  IF r.raised
           THEN /\ pending' = Exc(r.exc, r.msg)
                /\ pc' = "exit"
                /\ UNCHANGED player_data
           ELSE /\ player_data' = r.val
                /\ pc' = "loop"
                /\ UNCHANGED pending
    /\ UNCHANGED <<script, argv, session, lines, exitStatus, response,
                   characters, fs, char, summary>>

\* the agents the loop of lines 163-165 goes over
Agents == IF Truthy(response.agents) THEN response.agents.items ELSE <<>>

\* mutant: the summary is inserted at the front of the list
PrependCharacter ==
    /\ pc = "loop"
    /\ Len(characters) < Len(Agents)
    /\ LET r == serialize_character(Agents[Len(characters) + 1])
       IN  IF r.raised
           THEN /\ pending' = Exc(r.exc, r.msg)
                /\ pc' = "exit"
                /\ UNCHANGED characters
           ELSE /\ characters' = <<r.val>> \o characters
                /\ UNCHANGED <<pending, pc>>
    /\ UNCHANGED <<script, argv, session, lines, exitStatus, response,
                   player_data, fs, char, summary>>

\* lines 164-165: one iteration, characters.append(serialize_character(agent))
AppendCharacter ==
    /\ pc = "loop"
    /\ Len(characters) < Len(Agents)
    /\ LET r == serialize_character(Agents[Len(characters) + 1])
       IN  IF r.raised
           THEN /\ pending' = Exc(r.exc, r.msg)
                /\ pc' = "exit"
                /\ UNCHANGED characters
           ELSE /\ characters' = Append(characters, r.val)
                /\ UNCHANGED <<pending, pc>>
    /\ UNCHANGED <<script, argv, session, lines, exitStatus, response,
                   player_data, fs, char, summary>>

\* lines 168-172
Result ==
    DictV([player |-> player_data,
           characters |-> ListV(characters),
           ttl |-> IF HasAttr(response, "ttl") THEN response.ttl ELSE IntV(0)])

\* lines 168-174: the loop is over; print SUCCESS:<json>, unless json.dumps
\* raises
PrintResult ==
    /\ pc = "loop"
    /\ Len(characters) = Len(Agents)
    /\ LET text == Dumps(Result)
       IN  IF text.raised
           THEN /\ pending' = Exc(text.exc, text.msg)
                /\ UNCHANGED lines
           ELSE /\ lines' = Append(lines, Line("SUCCESS", text.val))
                /\ UNCHANGED pending
    /\ pc' = "exit"
    /\ UNCHANGED <<script, argv, session, exitStatus, response,
                   player_data, characters, fs, char, summary>>

----------------------------------------------------------------------------
(* generate_card.py: generate_card and list_characters *)

\* lines 49-52 and 102: await card.create(...) returns
CardReturns ==
    /\ pc = "await"
    /\ Handler # "fetch_profile"
    /\ \E r \in CardResults : response' = r
    /\ pc' = "body"
    /\ UNCHANGED <<script, argv, session, pending, lines, exitStatus,
                   player_data, characters, fs, char, summary>>

\* ... or raises
CardRaises ==
    /\ pc = "await"
    /\ Handler # "fetch_profile"
    /\ \E cls \in CardErrors : pending' = Exc(cls, "card generation failed")
    /\ pc' = "exit"
    /\ UNCHANGED <<script, argv, session, lines, exitStatus, response,
                   player_data, characters, fs, char, summary>>

\* lines 55 and 104: not result or not result.card
NoCards == IF Truthy(response) THEN ~Truthy(response.card) ELSE TRUE

\* mutant: the loop has no break, the last matching card wins
RECURSIVE FindTargetLast(_, _, _)
FindTargetLast(cards, i, character_id) ==
    IF i > Len(cards) THEN NoneV
    ELSE LET later == FindTargetLast(cards, i + 1, character_id)
         IN  IF later # NoneV THEN later
             ELSE IF PyStr(cards[i].id) = PyStr(character_id) THEN cards[i]
             ELSE NoneV

\* lines 60-64: the first card whose str(id) is str(character_id), or None
RECURSIVE FindTarget(_, _, _)
FindTarget(cards, i, character_id) ==
    IF i > Len(cards) THEN NoneV
    ELSE IF PyStr(cards[i].id) = PyStr(character_id) THEN cards[i]
    ELSE FindTarget(cards, i + 1, character_id)

\* lines 55-57
GenerateNoCard ==
    /\ pc = "body"
    /\ Handler = "generate_card"
    /\ NoCards
    /\ lines' = Append(lines, Line("ERROR",
           StrV("No card generated for character " \o argv.character_id.s)))
    /\ pending' = Returned("False")
    /\ pc' = "exit"
    /\ UNCHANGED <<script, argv, session, exitStatus, response,
                   player_data, characters, fs, char, summary>>

\* lines 60-68
GenerateNotFound ==
    /\ pc = "body"
    /\ Handler = "generate_card"
    /\ ~NoCards
    /\ ~Truthy(FindTarget(response.card.items, 1, argv.character_id))
    /\ lines' = Append(lines, Line("ERROR",
           StrV("Character " \o argv.character_id.s \o " not found in showcase")))
    /\ pending' = Returned("False")
    /\ pc' = "exit"
    /\ UNCHANGED <<script, argv, session, exitStatus, response,
                   player_data, characters, fs, char, summary>>

\* lines 60-80: the card is found; make the directory if it is named and
\* missing, save the image, print SUCCESS:<output_path>.  os.makedirs and
\* Image.save may each raise.
GenerateSave ==
    /\ pc = "body"
    /\ Handler = "generate_card"
    /\ ~NoCards
    /\ LET target_card == FindTarget(response.card.items, 1, argv.character_id)
           output_dir == Dirname(argv.output)
       IN  /\ Truthy(target_card)
           /\ \E exists \in BOOLEAN, mkdirRaises \in BOOLEAN, saveRaises \in BOOLEAN :
                LET make == Truthy(output_dir) /\ ~exists
                IN  IF make /\ mkdirRaises
                    THEN /\ pending' = Exc("OSError", "cannot create directory")
                         /\ UNCHANGED <<fs, lines>>
                    ELSE IF saveRaises
                    THEN /\ pending' = Exc("OSError", "cannot write image")
                         /\ fs' = [fs EXCEPT !.made = make]
                         /\ UNCHANGED lines
                    ELSE /\ fs' = [made |-> make, saved |-> target_card.card]
                         /\ lines' = Append(lines, Line("SUCCESS", argv.output))
                         /\ pending' = Returned("True")
    /\ pc' = "exit"
    /\ UNCHANGED <<script, argv, session, exitStatus, response,
                   player_data, characters, char, summary>>

\* lines 104-106
ListNoCard ==
    /\ pc = "body"
    /\ Handler = "list_characters"
    /\ NoCards
    /\ lines' = Append(lines, Line("ERROR", StrV("No characters found")))
    /\ pending' = Returned("False")
    /\ pc' = "exit"
    /\ UNCHANGED <<script, argv, session, exitStatus, response,
                   player_data, characters, fs, char, summary>>

\* lines 108-114
CardEntries(cards) ==
    [i \in 1..Len(cards) |->
        DictV([id |-> PyStr(cards[i].id), name |-> cards[i].name,
               rarity |-> cards[i].rarity])]

\* lines 108-117
ListPrint ==
    /\ pc = "body"
    /\ Handler = "list_characters"
    /\ ~NoCards
    /\ LET text == Dumps(ListV(CardEntries(response.card.items)))
       IN  IF text.raised
           THEN /\ pending' = Exc(text.exc, text.msg)
                /\ UNCHANGED lines
           ELSE /\ lines' = Append(lines, Line("SUCCESS", text.val))
                /\ pending' = Returned("True")
    /\ pc' = "exit"
    /\ UNCHANGED <<script, argv, session, exitStatus, response,
                   player_data, characters, fs, char, summary>>

----------------------------------------------------------------------------

Next ==
    \/ ArgparseReject
    \/ MainGenerateMissing
    \/ MainRun
    \/ MainReturn
    \/ EnterOk
    \/ EnterRaise
    \/ SessionExit
    \/ ExceptHandler
    \/ FetchBadUid
    \/ FetchReturns
    \/ FetchRaises
    \/ BuildPlayer
    \/ AppendCharacter
    \/ PrintResult
    \/ CardReturns
    \/ CardRaises
    \/ GenerateNoCard
    \/ GenerateNotFound
    \/ GenerateSave
    \/ ListNoCard
    \/ ListPrint

Spec == Init /\ [][Next]_vars

----------------------------------------------------------------------------
(* Properties *)

HasLine(prefix) == \E i \in 1..Len(lines) : lines[i].prefix = prefix
IsFetch == script = "fetch_profile" /\ response # Absent
IsGenerate ==
    script = "generate_card" /\ Handler = "generate_card" /\ response # Absent

\* C1 (as claimed): an action handler that has returned has printed exactly
\* one SUCCESS:/ERROR: line, never zero and never two.
C1_ExactlyOneLine ==
    pc = "return" => Len(lines) = 1

\* C2: serialize_character never raises into the loop of fetch_profile; a
\* character whose extraction raises becomes the record {id, name, error}
\* (id and name falling back to "unknown" and "Unknown"), and every other
\* character of the list gets the summary it gets on its own.
C2_Isolation ==
    IsFetch =>
      /\ \A i \in 1..Len(characters) :
           LET c == Agents[i]
               out == characters[i].d
           IN  IF TryBody(c).raised
               THEN /\ DOMAIN out = {"id", "name", "error"}
                    /\ out.id = IF HasAttr(c, "id") THEN PyStr(c.id)
                                ELSE StrV("unknown")
                    /\ out.name = IF HasAttr(c, "name") THEN c.name
                                  ELSE StrV("Unknown")
               ELSE /\ "error" \notin DOMAIN out
                    /\ characters[i] = TryBody(c).val
      /\ (pc = "exit" /\ player_data # Absent) => Len(characters) = Len(Agents)

C2_Witness ==
    /\ IsFetch
    /\ pc = "exit"
    /\ Len(characters) = 2
    /\ TryBody(Agents[1]).raised
    /\ ~TryBody(Agents[2]).raised
    /\ "error" \in DOMAIN characters[1].d
    /\ characters[2] = TryBody(Agents[2]).val
    /\ "w_engine" \in DOMAIN characters[2].d

\* C3 (as claimed): once the showcase fetch has returned a response and the
\* player dictionary is built, whatever the characters hold, the body ends
\* with one SUCCESS: line holding one entry per character, and no exception.
C3_NoProcessLevelError ==
    (IsFetch /\ pc = "exit" /\ player_data # Absent) =>
        /\ pending.kind # "exc"
        /\ Len(lines) = 1
        /\ lines[1].prefix = "SUCCESS"
        /\ Len(lines[1].payload.of.d.characters.items) = Len(Agents)

\* C4: the characters sequence of the printed result is as long as the list
\* of raw agents and its i-th element is the summary or error record of the
\* i-th agent.
C4_OrderPreserved ==
    (IsFetch /\ HasLine("SUCCESS")) =>
        LET out == lines[1].payload.of.d.characters.items
        IN  /\ Len(out) = Len(Agents)
            /\ \A i \in 1..Len(out) :
                 /\ out[i] = serialize_character(Agents[i]).val
                 /\ out[i].d.id = IF HasAttr(Agents[i], "id")
                                  THEN PyStr(Agents[i].id) ELSE StrV("unknown")

C4_Witness ==
    /\ IsFetch
    /\ HasLine("SUCCESS")
    /\ Len(Agents) = 2
    /\ lines[1].payload.of.d.characters.items[1].d.id = StrV("13")
    /\ "error" \in DOMAIN lines[1].payload.of.d.characters.items[1].d
    /\ lines[1].payload.of.d.characters.items[2].d.id = StrV("7")

\* a raw character with id, name, level and a rarity, and none of elements,
\* specialty, mindscape, stats, w_engine, icon
Bare(c) ==
    /\ HasAttr(c, "id") /\ HasAttr(c, "name") /\ HasAttr(c, "level")
    /\ HasAttr(c, "rarity") \/ HasAttr(c, "rarity_num")
    /\ \A a \in {"elements", "specialty", "mindscape", "stats", "w_engine", "icon"} :
         ~HasAttr(c, a)

C7_WeaponRankRarity ==
    (/\ pc = "returned"
     /\ HasAttr(char, "w_engine")
     /\ Truthy(char.w_engine)
     /\ "error" \notin DOMAIN summary.val.d)
    => /\ "w_engine" \in DOMAIN summary.val.d
       /\ LET engine == char.w_engine
              w == summary.val.d.w_engine.d
          IN  /\ HasAttr(engine, "rank") => w.rank = engine.rank
              /\ (~HasAttr(engine, "rank") /\ HasAttr(engine, "refinement"))
                   => w.rank = engine.refinement
              /\ (~HasAttr(engine, "rank") /\ ~HasAttr(engine, "refinement"))
                   => w.rank = IntV(1)
              /\ HasAttr(engine, "rarity") => w.rarity = engine.rarity
              /\ ~HasAttr(engine, "rarity") => w.rarity = IntV(4)

C7_Witness ==
    /\ pc = "returned"
    /\ HasAttr(char, "w_engine")
    /\ Truthy(char.w_engine)
    /\ HasAttr(char.w_engine, "rank")
    /\ HasAttr(char.w_engine, "refinement")
    /\ char.w_engine.rank # char.w_engine.refinement
    /\ "w_engine" \in DOMAIN summary.val.d
    /\ summary.val.d.w_engine.d.rank = char.w_engine.rank
    /\ summary.val.d.w_engine.d.rarity = IntV(4)

\* generate was asked for without --character_id or without --output
GenerateMissing ==
    Handler = "generate_card"
    /\ ~(Truthy(argv.character_id) /\ Truthy(argv.output))

C9_ReleasedBeforePrint ==
    [][lines' # lines => session # "open"]_vars

\* C9 (amended): a session that was opened is released before the handler
\* returns, on every path; the ERROR: line of the except clause is printed
\* after the release, while the lines printed on the other paths (SUCCESS:,
\* and the ERROR: lines for no card and character not found) are printed
\* inside the session block, before the release.
C9_ReleaseOrder ==
    /\ [](pc \in {"return", "exited"} => session # "open")
    /\ [][lines' # lines =>
            IF pc \in {"main", "except"} THEN session # "open"
            ELSE session = "open" /\ session' = "open"]_vars

C9_Witness ==
    /\ pc = "return"
    /\ session = "closed"
    /\ Len(lines) = 1
    /\ lines[1].prefix = "SUCCESS"

\* the positions of the cards whose stringified id is the requested one
Matching ==
    {i \in 1..Len(response.card.items) :
        PyStr(response.card.items[i].id).s = argv.character_id.s}

\* C10: generate_card prints SUCCESS:<output_path>, or returns True, only if
\* some card's stringified id is the requested character_id and the image of
\* the first such card was saved; if the list is empty or no card matches it
\* prints an ERROR: line, returns False, and creates neither the directory
\* nor a file.
C10_GenerateCard ==
    (IsGenerate /\ pc # "body") =>
        /\ (HasLine("SUCCESS") \/ pending = Returned("True")) =>
             /\ ~NoCards
             /\ Matching # {}
             /\ \E i \in Matching :
                  /\ \A j \in Matching : i <= j
                  /\ fs.saved = response.card.items[i].card
             /\ lines[1] = Line("SUCCESS", argv.output)
        /\ (IF NoCards THEN TRUE ELSE Matching = {}) =>
             /\ lines[1].prefix = "ERROR"
             /\ ~HasLine("SUCCESS")
             /\ fs = NoFs
             /\ pending # Returned("True")
             /\ pc \in {"return", "exited"} => pending = Returned("False")

C10_Witness ==
    /\ IsGenerate
    /\ pc = "return"
    /\ pending = Returned("True")
    /\ Len(response.card.items) = 2
    /\ Matching = {1, 2}
    /\ response.card.items[1].id # response.card.items[2].id
    /\ response.card.items[1].card # response.card.items[2].card
    /\ fs = [made |-> TRUE, saved |-> response.card.items[1].card]
    /\ lines = <<Line("SUCCESS", argv.output)>>

====
